---- MODULE Spec2Model ----
(***************************************************************************)
(* A model of the HTTP server core: the handler registry and dispatcher    *)
(* (server/handlers.rs), the worker pool and its synchronised queue        *)
(* (server/request_queue.rs), the listener (server/listener.rs) and the    *)
(* head parser (request/http1_1.rs, request/types.rs).                     *)
(*                                                                         *)
(* Strings are sequences of one-character strings, so that starts_with,    *)
(* strip_suffix, splitn and to_lowercase are computed as the code does.    *)
(***************************************************************************)
EXTENDS Integers, Sequences, FiniteSets, TLC

\* ------------------------------------------------------------------ bounds
MaxWorkers == 2
MaxConns == 2
MaxAdds == 1
MaxPathLen == 4
MaxNewLen == 2
MaxTokens == 4
MaxHeaderLines == 2
MaxHeaderOps == 2

\* ------------------------------------------------------- string helpers
StartsWith(s, pre) ==
    /\ Len(s) >= Len(pre)
    /\ SubSeq(s, 1, Len(pre)) = pre

EndsWith(s, suf) ==
    /\ Len(s) >= Len(suf)
    /\ SubSeq(s, Len(s) - Len(suf) + 1, Len(s)) = suf

Contains(s, ch) == \E i \in 1..Len(s) : s[i] = ch

\* index of the first occurrence of ch in s, 0 when there is none
FirstIndex(s, ch) ==
    IF Contains(s, ch)
    THEN CHOOSE i \in 1..Len(s) : s[i] = ch /\ \A j \in 1..(i - 1) : s[j] # ch
    ELSE 0

\* str::splitn(2, ch): at most two parts, split at the first ch
SplitN2(s, ch) ==
    LET i == FirstIndex(s, ch)
    IN  IF i = 0 THEN <<s>>
        ELSE <<SubSeq(s, 1, i - 1), SubSeq(s, i + 1, Len(s))>>

\* str::split(ch): the parts between the occurrences of ch, one part when
\* there is none (also for the empty string)
RECURSIVE Split(_, _)
Split(s, ch) ==
    LET i == FirstIndex(s, ch)
    IN  IF i = 0 THEN <<s>>
        ELSE <<SubSeq(s, 1, i - 1)>> \o Split(SubSeq(s, i + 1, Len(s)), ch)

UPPER == <<"A", "B", "C", "D", "E", "F", "G", "H", "I", "J", "K", "L", "M",
           "N", "O", "P", "Q", "R", "S", "T", "U", "V", "W", "X", "Y", "Z">>
LOWER == <<"a", "b", "c", "d", "e", "f", "g", "h", "i", "j", "k", "l", "m",
           "n", "o", "p", "q", "r", "s", "t", "u", "v", "w", "x", "y", "z">>

\* char::to_lowercase / char::to_uppercase on ASCII
LowerChar(c) ==
    IF \E i \in 1..26 : UPPER[i] = c
    THEN LOWER[CHOOSE i \in 1..26 : UPPER[i] = c]
    ELSE c

UpperChar(c) ==
    IF \E i \in 1..26 : LOWER[i] = c
    THEN UPPER[CHOOSE i \in 1..26 : LOWER[i] = c]
    ELSE c

ToLowercase(s) == [i \in 1..Len(s) |-> LowerChar(s[i])]

\* --------------------------------------------------- request/types.rs
Methods == {"Get", "Post", "Put", "Patch", "Delete", "Connect", "Options", "Trace", "Head"}

\* Display for HTTPMethod: the upper-cased variant name
MethodDisplay(m) ==
    CASE m = "Get" -> <<"G", "E", "T">>
      [] m = "Post" -> <<"P", "O", "S", "T">>
      [] m = "Put" -> <<"P", "U", "T">>
      [] m = "Patch" -> <<"P", "A", "T", "C", "H">>
      [] m = "Delete" -> <<"D", "E", "L", "E", "T", "E">>
      [] m = "Connect" -> <<"C", "O", "N", "N", "E", "C", "T">>
      [] m = "Options" -> <<"O", "P", "T", "I", "O", "N", "S">>
      [] m = "Trace" -> <<"T", "R", "A", "C", "E">>
      [] m = "Head" -> <<"H", "E", "A", "D">>

\* a FromStr for HTTPMethod without the arm for HEAD
MethodFromStr_no_head(s) ==
    CASE s = <<"G", "E", "T">> -> "Get"
      [] s = <<"P", "O", "S", "T">> -> "Post"
      [] s = <<"P", "U", "T">> -> "Put"
      [] s = <<"P", "A", "T", "C", "H">> -> "Patch"
      [] s = <<"D", "E", "L", "E", "T", "E">> -> "Delete"
      [] s = <<"C", "O", "N", "N", "E", "C", "T">> -> "Connect"
      [] s = <<"O", "P", "T", "I", "O", "N", "S">> -> "Options"
      [] s = <<"T", "R", "A", "C", "E">> -> "Trace"
      [] OTHER -> "Invalid"
\* FromStr for HTTPMethod: Err(()) is "Invalid"
MethodFromStr(s) ==
    CASE s = <<"G", "E", "T">> -> "Get"
      [] s = <<"P", "O", "S", "T">> -> "Post"
      [] s = <<"P", "U", "T">> -> "Put"
      [] s = <<"P", "A", "T", "C", "H">> -> "Patch"
      [] s = <<"D", "E", "L", "E", "T", "E">> -> "Delete"
      [] s = <<"C", "O", "N", "N", "E", "C", "T">> -> "Connect"
      [] s = <<"O", "P", "T", "I", "O", "N", "S">> -> "Options"
      [] s = <<"T", "R", "A", "C", "E">> -> "Trace"
      [] s = <<"H", "E", "A", "D">> -> "Head"
      [] OTHER -> "Invalid"

HTTP_PREFIX == <<"H", "T", "T", "P", "/">>

\* FromStr for HTTPVersion: an unsupported version is "Invalid"
VersionFromStr(s) ==
    CASE s = HTTP_PREFIX \o <<"0", ".", "9">> -> "V0_9"
      [] s = HTTP_PREFIX \o <<"1", ".", "0">> -> "V1_0"
      [] s = HTTP_PREFIX \o <<"1", ".", "1">> -> "V1_1"
      [] OTHER -> "Invalid"

Digits == {"0", "1", "2", "3", "4", "5", "6", "7", "8", "9"}

\* u16::from_str succeeds on the ports the model uses: one to four digits
IsPort(s) == Len(s) \in 1..4 /\ \A i \in 1..Len(s) : s[i] \in Digits

PathOf(form, s) == [form |-> form, s |-> s]

SCHEME == <<"h", "t", "t", "p", ":", "/", "/">>

\* FromStr for Path: Err(()) is the form "Invalid"
PathFromStr(path) ==
    IF StartsWith(path, <<"/">>) THEN PathOf("OriginForm", path)
    ELSE IF StartsWith(path, SCHEME) THEN PathOf("AbsoluteForm", path)
    ELSE IF Contains(path, ":")
         THEN IF IsPort(SplitN2(path, ":")[2])
              THEN PathOf("AuthorityForm", path)
              ELSE PathOf("Invalid", path)
    ELSE IF path = <<"*">> THEN PathOf("Asterisk", path)
    ELSE PathOf("Invalid", path)

\* ------------------------------------------------ request/http1_1.rs
ParseErr(kind, why) == [ok |-> FALSE, err |-> kind, why |-> why]

\* parse_start_line over the segments of line.split(' ')
parse_start_line(tokens) ==
    LET segments == SubSeq(tokens, 1, IF Len(tokens) < 3 THEN Len(tokens) ELSE 3)
        n == Len(segments)
    IN  CASE n = 0 -> ParseErr("InvalidStartLine", "Empty")
          [] n = 1 -> ParseErr("InvalidStartLine", "Too few segments")
          [] n = 2 ->
                IF MethodFromStr(segments[1]) = "Invalid"
                THEN ParseErr("InvalidStartLine", "Invalid method")
                ELSE IF PathFromStr(segments[2]).form = "Invalid"
                THEN ParseErr("InvalidStartLine", "Invalid path")
                ELSE [ok |-> TRUE, method |-> MethodFromStr(segments[1]),
                      path |-> PathFromStr(segments[2]), version |-> "V0_9"]
          [] n = 3 ->
                IF VersionFromStr(segments[3]) = "Invalid"
                THEN ParseErr("InvalidStartLine", "Invalid HTTP version")
                ELSE IF MethodFromStr(segments[1]) = "Invalid"
                THEN ParseErr("InvalidStartLine", "Invalid method")
                ELSE IF PathFromStr(segments[2]).form = "Invalid"
                THEN ParseErr("InvalidStartLine", "Invalid path")
                ELSE [ok |-> TRUE, method |-> MethodFromStr(segments[1]),
                      path |-> PathFromStr(segments[2]),
                      version |-> VersionFromStr(segments[3])]
          [] OTHER -> ParseErr("InvalidStartLine", "Too many segments")

\* parse_headers: fails on a line with no ':'; otherwise the map, as a set
\* of <<lower-cased name, value>> pairs in which a later line replaces an
\* earlier one of the same name
\* a parse_headers in which the first line of a name wins
RECURSIVE parse_headers_first_wins(_, _, _)
parse_headers_first_wins(lines, i, headers) ==
    IF i > Len(lines) THEN [ok |-> TRUE, map |-> headers]
    ELSE LET parts == SplitN2(lines[i], ":")
         IN  IF Len(parts) # 2 THEN [ok |-> FALSE, map |-> {}]
             ELSE LET key == ToLowercase(parts[1])
                  IN  parse_headers_first_wins(lines, i + 1,
                        IF \E kv \in headers : kv[1] = key THEN headers
                        ELSE headers \cup {<<key, parts[2]>>})
RECURSIVE parse_headers_from(_, _, _)
parse_headers_from(lines, i, headers) ==
    IF i > Len(lines) THEN [ok |-> TRUE, map |-> headers]
    ELSE LET parts == SplitN2(lines[i], ":")
         IN  IF Len(parts) # 2 THEN [ok |-> FALSE, map |-> {}]
             ELSE LET key == ToLowercase(parts[1])
                  IN  parse_headers_from(lines, i + 1,
                        {kv \in headers : kv[1] # key} \cup {<<key, parts[2]>>})

parse_headers(lines) == parse_headers_from(lines, 1, {})

HOST == <<"h", "o", "s", "t">>

\* A request head as read off the connection: whether there is a first line,
\* its segments (line.split(' ')), and the header lines before the empty line
HeadOf(present, start, hdrs) == [present |-> present, start |-> start, hdrs |-> hdrs]

\* a head parser that wants the Host header whatever the version
parse_req_head_any_version(head) ==
    IF ~head.present THEN ParseErr("InvalidStartLine", "Missing start line")
    ELSE LET sl == parse_start_line(head.start)
             hdrs == parse_headers(head.hdrs)
         IN  IF ~sl.ok THEN sl
             ELSE IF ~hdrs.ok THEN ParseErr("InvalidHeader", "no colon")
             ELSE IF ~(\E kv \in hdrs.map : kv[1] = HOST)
             THEN ParseErr("MissingHostHeader", "")
             ELSE [ok |-> TRUE, method |-> sl.method, path |-> sl.path,
                   version |-> sl.version, headers |-> hdrs.map]
\* the head part of parse_req: start line, headers, Host requirement
parse_req_head(head) ==
    IF ~head.present THEN ParseErr("InvalidStartLine", "Missing start line")
    ELSE LET sl == parse_start_line(head.start)
             hdrs == parse_headers(head.hdrs)
         IN  IF ~sl.ok THEN sl
             ELSE IF ~hdrs.ok THEN ParseErr("InvalidHeader", "no colon")
             ELSE IF sl.version = "V1_1" /\ ~(\E kv \in hdrs.map : kv[1] = HOST)
             THEN ParseErr("MissingHostHeader", "")
             ELSE [ok |-> TRUE, method |-> sl.method, path |-> sl.path,
                   version |-> sl.version, headers |-> hdrs.map]

\* ------------------------------------------------ server/response.rs
NoStream == 0

\* usize::to_string
RECURSIVE ToDecimal(_)
ToDecimal(n) ==
    LET d == <<"0", "1", "2", "3", "4", "5", "6", "7", "8", "9">>
    IN  IF n < 10 THEN <<d[n + 1]>> ELSE ToDecimal(n \div 10) \o <<d[(n % 10) + 1]>>

\* ResponseStatus::to_code for the statuses the server core produces
to_code(status) ==
    CASE status = "OK" -> 200
      [] status = "BadRequest" -> 400
      [] status = "NotFound" -> 404
      [] status = "InternalServerError" -> 500

\* ResponseBuilder::default(): every field is None
BuilderDefault ==
    [version |-> "None", status |-> "None", hasHeaders |-> FALSE, headers |-> {},
     hasBody |-> FALSE, body |-> <<>>, stream |-> NoStream]

BuilderVersion(b, version) == [b EXCEPT !.version = version]
BuilderStatus(b, status) == [b EXCEPT !.status = status]
BuilderBody(b, body) == [b EXCEPT !.hasBody = TRUE, !.body = body]
BuilderStream(b, stream) == [b EXCEPT !.stream = stream]
BuilderOk(b) == [b EXCEPT !.status = "OK"]
bad_request(b) == [b EXCEPT !.status = "BadRequest"]
not_found(b) == [b EXCEPT !.status = "NotFound"]

\* HashMap lookup / insert on a set of <<key, value>> pairs
HasKey(headers, k) == \E kv \in headers : kv[1] = k
GetKey(headers, k) == (CHOOSE kv \in headers : kv[1] = k)[2]
InsertKey(headers, k, v) == {kv \in headers : kv[1] # k} \cup {<<k, v>>}

CONTENT_LENGTH == <<"C", "o", "n", "t", "e", "n", "t", "-", "L", "e", "n", "g", "t", "h">>
CONTENT_TYPE == <<"C", "o", "n", "t", "e", "n", "t", "-", "T", "y", "p", "e">>
CHARSET == <<"c", "h", "a", "r", "s", "e", "t">>
CHARSET_SUFFIX == <<";", " ", "c", "h", "a", "r", "s", "e", "t", "=", "U", "T", "F", "-", "8">>

\* str::contains for a substring
ContainsStr(s, sub) ==
    \E i \in 1..(Len(s) - Len(sub) + 1) : SubSeq(s, i, i + Len(sub) - 1) = sub

\* ResponseBuilder::headers: the map with every key lower-cased
BuilderHeaders(b, headers) ==
    [b EXCEPT !.hasHeaders = TRUE,
              !.headers = {<<ToLowercase(kv[1]), kv[2]>> : kv \in headers}]

\* ResponseBuilder::header: the map (a new one when there is none yet) with
\* the value under the lower-cased key, replacing what was there
BuilderHeader(b, key, value) ==
    [b EXCEPT !.hasHeaders = TRUE,
              !.headers = InsertKey(b.headers, ToLowercase(key), value)]

\* Response::set_header, Response::get_header (Some: found), on the header map
set_header(headers, k, v) == InsertKey(headers, ToLowercase(k), v)
get_header(headers, k) ==
    IF HasKey(headers, ToLowercase(k))
    THEN [found |-> TRUE, v |-> GetKey(headers, ToLowercase(k))]
    ELSE [found |-> FALSE, v |-> <<>>]

\* Response::extend_headers: HashMap::extend with the pairs as they are given
extend_headers(headers, more) ==
    {kv \in headers : ~HasKey(more, kv[1])} \cup more

\* Response::insert_if_absent
insert_if_absent(headers, k, v) ==
    IF HasKey(headers, ToLowercase(k)) THEN headers
    ELSE InsertKey(headers, ToLowercase(k), v)

\* an ensure_headers that leaves the Content-Type as it is
ensure_headers_no_charset(headers, body) ==
    IF body # <<>>
    THEN insert_if_absent(headers, CONTENT_LENGTH, ToDecimal(Len(body)))
    ELSE headers
\* ensure_headers, on the header map of a response with the given body
ensure_headers(headers, body) ==
    IF body # <<>>
    THEN LET h1 == insert_if_absent(headers, CONTENT_LENGTH, ToDecimal(Len(body)))
             ct == get_header(h1, CONTENT_TYPE)
         IN  IF ct.found /\ ~ContainsStr(ct.v, CHARSET)
             THEN set_header(h1, CONTENT_TYPE, ct.v \o CHARSET_SUFFIX)
             ELSE h1
    ELSE headers

\* Response::new
ResponseNew(version, status, headers, body, stream) ==
    [version |-> version, status |-> status,
     headers |-> ensure_headers(headers, body), body |-> body, stream |-> stream]

\* title_case_header: the first character of each '-'-separated word in
\* upper case
title_case_header(str) ==
    [i \in 1..Len(str) |-> IF i = 1 \/ str[i - 1] = "-" THEN UpperChar(str[i]) ELSE str[i]]

\* format_http1_x: the status line, one header line per entry of the map (in
\* the map's order, which is arbitrary) and the body
format_http1_x(res) ==
    [version |-> res.version, code |-> to_code(res.status),
     headers |-> {[name |-> title_case_header(kv[1]), value |-> kv[2], key |-> kv[1]] :
                     kv \in res.headers},
     body |-> res.body]

\* a build that does not ask for a stream
build_any_stream(b) ==
    IF b.version = "None" \/ b.status = "None"
    THEN [ok |-> FALSE]
    ELSE [ok |-> TRUE,
          res |-> ResponseNew(b.version, b.status,
                              IF b.hasHeaders THEN b.headers ELSE {},
                              IF b.hasBody THEN b.body ELSE <<>>, b.stream)]
\* ResponseBuilder::build: Err when version, status or stream is missing
build(b) ==
    IF b.version = "None" \/ b.status = "None" \/ b.stream = NoStream
    THEN [ok |-> FALSE]
    ELSE [ok |-> TRUE,
          res |-> ResponseNew(b.version, b.status,
                              IF b.hasHeaders THEN b.headers ELSE {},
                              IF b.hasBody THEN b.body ELSE <<>>, b.stream)]

\* Request::into_stream: the request gives back the stream it was built over
into_stream(req) == req.stream

\* From<Request> for ResponseBuilder: the request's version and stream
BuilderFromRequest(req) ==
    BuilderStream(BuilderVersion(BuilderDefault, req.version), into_stream(req))

\* ------------------------------------------------ server/handlers.rs
KEY_DELIMITER == <<"[", "#", "#", "]">>

PANIC == <<"!panic">>

\* HandlerPath::new: panics unless the path starts with '/', and otherwise
\* is path.strip_suffix('/').unwrap_or(path)
HandlerPathNew(path) ==
    IF ~StartsWith(path, <<"/">>) THEN PANIC
    ELSE IF EndsWith(path, <<"/">>) THEN SubSeq(path, 1, Len(path) - 1)
    ELSE path

\* TryFrom<Path> for HandlerPath
HandlerPathTryFrom(value) ==
    CASE value.form = "Asterisk" -> [ok |-> FALSE, hp |-> <<>>]
      [] value.form = "AuthorityForm" -> [ok |-> FALSE, hp |-> <<>>]
      [] value.form = "OriginForm" -> [ok |-> TRUE, hp |-> value.s]
      [] value.form = "AbsoluteForm" ->
            LET parts == SplitN2(value.s, "/")
                rest == IF Len(parts) = 2 THEN parts[2] ELSE <<>>
            IN  IF rest = <<>> THEN [ok |-> TRUE, hp |-> <<"/">>]
                ELSE [ok |-> TRUE, hp |-> value.s]

\* Display for Path
PathDisplay(path) == path.s

\* HandlerRegistryKey::from
KeyOf(method, hp) == MethodDisplay(method) \o KEY_DELIMITER \o hp

HandlerOf(method, hp, kind) == [method |-> method, path |-> hp, kind |-> kind]

\* HandlerRegistry::get
RegistryGet(registry, method, hp) ==
    IF KeyOf(method, hp) \in DOMAIN registry
    THEN [found |-> TRUE, handler |-> registry[KeyOf(method, hp)]]
    ELSE [found |-> FALSE]

UnhandlableMethods == {"Trace", "Connect", "Options"}

\* RequestDispatcher::add for HandlerRegistry
RegistryAdd(registry, handler) ==
    IF handler.method \in UnhandlableMethods
    THEN [result |-> "UnhandlableMethod", registry |-> registry]
    ELSE LET key == KeyOf(handler.method, handler.path)
         IN  IF key \notin DOMAIN registry
             THEN [result |-> "Ok", registry |-> (key :> handler) @@ registry]
             ELSE [result |-> "DuplicateKey", registry |-> registry]

\* HandlerRegistry::new: each handler of the list in turn goes in under its
\* key with entry(key).or_insert(h); the method is not looked at
RECURSIVE RegistryNew(_)
RegistryNew(hs) ==
    IF hs = <<>> THEN <<>>
    ELSE LET registry == RegistryNew(SubSeq(hs, 1, Len(hs) - 1))
             h == hs[Len(hs)]
             key == KeyOf(h.method, h.path)
         IN  IF key \in DOMAIN registry THEN registry
             ELSE (key :> h) @@ registry

\* HandlerCallError::new
HandlerCallErrorNew(reason, req) ==
    [reason |-> reason, http_version |-> req.version, path |-> req.path,
     stream |-> into_stream(req), method |-> req.method]

MALFORMED == <<"M", "a", "l", "f", "o", "r", "m", "e", "d", " ", "U", "R", "L", " ", "p", "a", "t", "h", " ">>
NO_MATCH == <<"N", "o", " ", "m", "a", "t", "c", "h", "i", "n", "g", " ", "h", "a", "n", "d", "l", "e", "r", " ", "f", "o", "u", "n", "d", " ", "f", "o", "r", " ">>

\* an into_response that answers every reason as as_status_code does
into_response_not_found(err) ==
    BuilderBody(not_found(BuilderStream(BuilderVersion(BuilderDefault, err.http_version),
                                        err.stream)),
                NO_MATCH \o MethodDisplay(err.method) \o <<" ">> \o PathDisplay(err.path))
\* HandlerCallError::into_response
into_response(err) ==
    LET builder == BuilderStream(BuilderVersion(BuilderDefault, err.http_version), err.stream)
    IN  IF err.reason = "UnhandlablePath"
        THEN BuilderBody(bad_request(builder), MALFORMED \o PathDisplay(err.path))
        ELSE BuilderBody(not_found(builder),
                         NO_MATCH \o MethodDisplay(err.method) \o <<" ">> \o PathDisplay(err.path))

\* HandlerCallError::as_status_code
as_status_code(err) == "NotFound"

HELLO == <<"H", "e", "l", "l", "o", ",", " ", "w", "o", "r", "l", "d", "!">>

\* Handler::on_request.  A handler is user code: it answers Done with a
\* response built from the request, answers Continue, or panics.
on_request(handler, req) ==
    CASE handler.kind = "Done" ->
            [tag |-> "Done", res |-> build(BuilderBody(BuilderOk(BuilderFromRequest(req)), HELLO)).res]
      [] handler.kind = "Continue" -> [tag |-> "Continue"]
      [] handler.kind = "Panic" -> [tag |-> "Panic"]


\* a dispatch that answers Continue with a routing error
dispatch_continue_no_match(registry, req) ==
    LET handler_path == HandlerPathTryFrom(req.path)
    IN  IF ~handler_path.ok
        THEN [tag |-> "Err", err |-> HandlerCallErrorNew("UnhandlablePath", req)]
        ELSE LET handler == RegistryGet(registry, req.method, handler_path.hp)
             IN  IF ~handler.found
                 THEN [tag |-> "Err", err |-> HandlerCallErrorNew("NoCompatibleHandler", req)]
                 ELSE LET result == on_request(handler.handler, req)
                      IN  CASE result.tag = "Done" -> [tag |-> "Ok", res |-> result.res]
                            [] result.tag = "Continue" ->
                                 [tag |-> "Err", err |-> HandlerCallErrorNew("NoCompatibleHandler", req)]
                            [] result.tag = "Panic" -> [tag |-> "Panic", why |-> "handler"]

\* HandlerRegistry::dispatch: Ok(response), Err(HandlerCallError), or a panic
\* (the handler's own, or todo!() on Continue)
dispatch(registry, req) ==
    LET handler_path == HandlerPathTryFrom(req.path)
    IN  IF ~handler_path.ok
        THEN [tag |-> "Err", err |-> HandlerCallErrorNew("UnhandlablePath", req)]
        ELSE LET handler == RegistryGet(registry, req.method, handler_path.hp)
             IN  IF ~handler.found
                 THEN [tag |-> "Err", err |-> HandlerCallErrorNew("NoCompatibleHandler", req)]
                 ELSE LET result == on_request(handler.handler, req)
                      IN  CASE result.tag = "Done" -> [tag |-> "Ok", res |-> result.res]
                            [] result.tag = "Continue" ->
                                 [tag |-> "Panic", why |-> "not yet implemented"]
                            [] result.tag = "Panic" -> [tag |-> "Panic", why |-> "handler"]

\* ------------------------------------------------------------ the state
VARIABLES
    handlers,     \* HandlerRegistry.handlers: key -> handler
    nAdds,        \* number of add calls made while setting up
    listener,     \* "setup", "running" (in the accept loop) or "stopped"
    n_threads,    \* RequestQueueOptions.n_threads
    threads,      \* RequestQueue.threads: Some(join handles) or None
    pc,           \* where each worker thread is
    job,          \* the request a worker took out of Work(job)
    data,         \* SynchronisedQueue.data
    conns,        \* per accepted connection: how handle_connection ended, the request
    dispatchLog,  \* the requests handed to dispatch, in order, with how it ended
    sendLog,      \* the calls of Response::send, in order
    shutPc,       \* where the thread inside shutdown() is
    joinable,     \* the join handles shutdown() took and has still to join
    pushLeft,     \* Die messages shutdown() has still to push
    shutStat,     \* calls of shutdown(), returns of it, Die messages pushed
    call          \* the pure function under check, its argument and result

serverVars == <<handlers, nAdds, listener, n_threads, threads, pc, job, data,
                conns, dispatchLog, sendLog, shutPc, joinable, pushLeft, shutStat>>
vars == <<handlers, nAdds, listener, n_threads, threads, pc, job, data,
          conns, dispatchLog, sendLog, shutPc, joinable, pushLeft, shutStat, call>>

Workers == 1..MaxWorkers
NoRequest ==
    [conn |-> 0, method |-> "None", path |-> [form |-> "None", s |-> <<>>],
     version |-> "None", headers |-> {}, stream |-> 0]
NoJob == NoRequest
NoCall == [fn |-> "none", arg |-> <<>>, res |-> <<>>, done |-> FALSE]

\* ThreadPoolMessage
Work(req) == [tag |-> "Work", req |-> req]
Die == [tag |-> "Die", req |-> NoJob]

\* ---------------------------------------------------------- the inputs
P_ROOT == <<"/">>
P_A == <<"/", "a">>
P_A_SLASH == <<"/", "a", "/">>
P_B == <<"/", "b">>
P_STAR == <<"*">>
P_AUTHORITY == <<"h", ":", "8", "0">>
V1_0 == HTTP_PREFIX \o <<"1", ".", "0">>
V1_1 == HTTP_PREFIX \o <<"1", ".", "1">>
L_HOST == <<"H", "o", "s", "t", ":", "x">>
L_NO_COLON == <<"x">>

\* The handlers an application registers: (method, path given to
\* HandlerPath::new, what on_request does)
HandlerInputs ==
    { <<"Get", P_ROOT, "Done">>, <<"Get", P_B, "Done">>, <<"Get", P_B, "Continue">>,
      <<"Get", P_B, "Panic">>, <<"Trace", P_A, "Done">> }

\* The request heads clients send
Heads ==
    { HeadOf(TRUE, <<MethodDisplay("Get"), P_ROOT, V1_0>>, <<>>),
      HeadOf(TRUE, <<MethodDisplay("Get"), P_B, V1_1>>, <<L_HOST>>),
      HeadOf(TRUE, <<MethodDisplay("Options"), P_STAR, V1_1>>, <<L_HOST>>),
      HeadOf(TRUE, <<MethodDisplay("Get"), P_A, V1_1>>, <<>>),
      HeadOf(TRUE, <<MethodDisplay("Get"), P_A, V1_1>>, <<L_HOST, L_NO_COLON>>),
      HeadOf(TRUE, <<MethodDisplay("Get")>>, <<>>),
      HeadOf(FALSE, <<>>, <<>>) }

\* What happens on an accepted connection before the head is parsed
ConnInputs ==
    { [configure |-> FALSE, read |-> FALSE, head |-> HeadOf(FALSE, <<>>, <<>>)],
      [configure |-> TRUE, read |-> FALSE, head |-> HeadOf(FALSE, <<>>, <<>>)] }
    \cup { [configure |-> TRUE, read |-> TRUE, head |-> h] : h \in Heads }

\* ------------------------------------------------ SynchronisedQueue
Waiters == {w \in Workers : pc[w] = "waiting"}

\* VecDeque::push_back and VecDeque::pop_front
\* a pop that takes the newest element
pop_front_newest(q) == [x |-> q[Len(q)], rest |-> SubSeq(q, 1, Len(q) - 1)]
\* a pop that returns the front element and leaves it in the queue
pop_front_peek(q) == [x |-> Head(q), rest |-> q]
\* a push that appends the element twice
push_back_twice(q, x) == Append(Append(q, x), x)
push_back(q, x) == Append(q, x)
pop_front(q) == [x |-> Head(q), rest |-> Tail(q)]


\* a push that appends and signals no one
Push_no_notify(x) ==
    /\ data' = push_back(data, x)
    /\ pc' = pc

\* SynchronisedQueue::push: append under the lock, then notify_one, which
\* wakes one thread waiting on the condvar when there is one
Push(x) ==
    /\ data' = push_back(data, x)
    /\ IF Waiters = {} THEN pc' = pc
       ELSE \E w \in Waiters : pc' = [pc EXCEPT ![w] = "pop"]

\* ------------------------------------------------------------- setup
Init ==
    /\ handlers = <<>>
    /\ nAdds = 0
    /\ listener = "setup"
    /\ n_threads = 0
    /\ threads = [some |-> FALSE, v |-> <<>>]
    /\ pc = [w \in Workers |-> "unspawned"]
    /\ job = [w \in Workers |-> NoJob]
    /\ data = <<>>
    /\ conns = <<>>
    /\ dispatchLog = <<>>
    /\ sendLog = <<>>
    /\ shutPc = "idle"
    /\ joinable = <<>>
    /\ pushLeft = 0
    /\ shutStat = [calls |-> 0, returns |-> 0, dies |-> 0]
    /\ call = NoCall

\* registry.add(Arc::new(handler)), the handler's path made by HandlerPath::new
AddHandler ==
    /\ listener = "setup"
    /\ nAdds < MaxAdds
    /\ \E h \in HandlerInputs :
          handlers' = RegistryAdd(handlers, HandlerOf(h[1], HandlerPathNew(h[2]), h[3])).registry
    /\ nAdds' = nAdds + 1
    /\ UNCHANGED <<listener, n_threads, threads, pc, job, data, conns, dispatchLog,
                   sendLog, shutPc, joinable, pushLeft, shutStat, call>>

\* HTTPListener::new: RequestQueue::new spawns n_threads workers over an
\* empty queue; HTTPListener::listen then runs the accept loop
HTTPListenerNew ==
    /\ listener = "setup"
    /\ \E n \in 1..MaxWorkers :
          /\ n_threads' = n
          /\ threads' = [some |-> TRUE, v |-> [i \in 1..n |-> i]]
          /\ pc' = [w \in Workers |-> IF w <= n THEN "pop" ELSE "unspawned"]
    /\ listener' = "running"
    /\ UNCHANGED <<handlers, nAdds, job, data, conns, dispatchLog, sendLog,
                   shutPc, joinable, pushLeft, shutStat, call>>

\* ---------------------------------------------------------- listener
\* How handle_connection ends: configure_connection(stream)? and
\* read_message(stream)? return the I/O error, a head that does not parse
\* returns an InvalidData error, and otherwise the request is enqueued
ConnOutcome(input) ==
    IF ~input.configure THEN "ioErr"
    ELSE IF ~input.read THEN "ioErr"
    ELSE IF ~parse_req_head(input.head).ok THEN "parseErr"
    ELSE "enqueued"

\* Request::new(request_head, reader): the head and the reader over the
\* connection's stream
RequestNew(head, conn) ==
    [conn |-> conn, method |-> head.method, path |-> head.path,
     version |-> head.version, headers |-> head.headers, stream |-> conn]


\* the accept loop returns what on_stream returned when that is an error
listen_next_propagate(outcome) == IF outcome = "enqueued" THEN "running" ELSE "stopped"

\* listen after on_stream returned: let _ = on_stream(..).inspect_err(..)
\* prints an error and goes on to the next incoming stream
listen_next(outcome) == "running"

\* One turn of the accept loop: HTTPListener::handle_connection on the next
\* connection.  An Err is printed by listen and the stream is dropped.
HandleConnection ==
    /\ listener = "running"
    /\ Len(conns) < MaxConns
    /\ \E input \in ConnInputs :
          LET c == Len(conns) + 1
              outcome == ConnOutcome(input)
          IN  /\ listener' = listen_next(outcome)
              /\ IF outcome = "enqueued"
                 THEN LET request == RequestNew(parse_req_head(input.head), c)
                      IN  /\ conns' = Append(conns, [outcome |-> outcome, req |-> request])
                          /\ Push(Work(request))
                 ELSE /\ conns' = Append(conns, [outcome |-> outcome, req |-> NoRequest])
                      /\ UNCHANGED <<data, pc>>
    /\ UNCHANGED <<handlers, nAdds, n_threads, threads, job, dispatchLog,
                   sendLog, shutPc, joinable, pushLeft, shutStat, call>>

\* listener.incoming() yields an error: listen returns it and the listener,
\* with its RequestQueue, goes out of scope
ListenerFail ==
    /\ listener = "running"
    /\ listener' = "stopped"
    /\ UNCHANGED <<handlers, nAdds, n_threads, threads, pc, job, data, conns,
                   dispatchLog, sendLog, shutPc, joinable, pushLeft, shutStat, call>>

\* ------------------------------------------------------ worker threads
\* SynchronisedQueue::pop with a non-empty queue: pop_front under the lock;
\* the worker loop then matches on the message
PopTake(w) ==
    /\ pc[w] = "pop"
    /\ data # <<>>
    /\ LET got == pop_front(data)
       IN  /\ data' = got.rest
           /\ IF got.x.tag = "Work"
              THEN /\ pc' = [pc EXCEPT ![w] = "work"]
                   /\ job' = [job EXCEPT ![w] = got.x.req]
              ELSE /\ pc' = [pc EXCEPT ![w] = "exited"]
                   /\ job' = job
    /\ UNCHANGED <<handlers, nAdds, listener, n_threads, threads, conns, dispatchLog,
                   sendLog, shutPc, joinable, pushLeft, shutStat, call>>

\* SynchronisedQueue::pop with an empty queue: wait on the condvar
PopWait(w) ==
    /\ pc[w] = "pop"
    /\ data = <<>>
    /\ pc' = [pc EXCEPT ![w] = "waiting"]
    /\ UNCHANGED <<handlers, nAdds, listener, n_threads, threads, job, data, conns,
                   dispatchLog, sendLog, shutPc, joinable, pushLeft, shutStat, call>>

\* Condvar::wait may return without a notification
SpuriousWake(w) ==
    /\ pc[w] = "waiting"
    /\ pc' = [pc EXCEPT ![w] = "pop"]
    /\ UNCHANGED <<handlers, nAdds, listener, n_threads, threads, job, data, conns,
                   dispatchLog, sendLog, shutPc, joinable, pushLeft, shutStat, call>>

\* The response the worker callback sends for what dispatch returned
CallbackResponse(out) ==
    IF out.tag = "Ok" THEN out.res ELSE build(into_response(out.err)).res

\* Response::send writes the formatted response on the response's stream;
\* the caller logs a write error and goes on, so the call is what is recorded
SendEntry(req, res, thread, lifted) ==
    [req |-> req.conn, stream |-> res.stream, status |-> res.status,
     version |-> res.version, by |-> thread, lifted |-> lifted]

\* cb(job): the closure of RequestQueue::new.  dispatch, lift an error to a
\* response, send it and ignore a write error.  A panic unwinds the thread.
Callback(w) ==
    /\ pc[w] = "work"
    /\ LET req == job[w]
           out == dispatch(handlers, req)
       IN  /\ dispatchLog' = Append(dispatchLog,
                 [req |-> req.conn, tag |-> out.tag,
                  why |-> IF out.tag = "Panic" THEN out.why ELSE "returned"])
           /\ IF out.tag = "Panic"
              THEN /\ pc' = [pc EXCEPT ![w] = "panicked"]
                   /\ sendLog' = sendLog
              ELSE /\ pc' = [pc EXCEPT ![w] = "pop"]
                   /\ sendLog' = Append(sendLog,
                         SendEntry(req, CallbackResponse(out), "worker", out.tag = "Err"))
    /\ job' = [job EXCEPT ![w] = NoJob]
    /\ UNCHANGED <<handlers, nAdds, listener, n_threads, threads, data, conns,
                   shutPc, joinable, pushLeft, shutStat, call>>

\* ----------------------------------------------------------- shutdown
MaxShutdownCalls == 2

\* one Die message too few
ShutdownPushCount_short(ths) == Len(ths) - 1
\* for _ in 0..threads.len()
ShutdownPushCount(ths) == Len(ths)


\* a take that leaves the join handles in place
take_keep(option) == option
\* Option::take: the value is moved out and None is left
take(option) == [some |-> FALSE, v |-> <<>>]

\* RequestQueue::shutdown, called explicitly or by Drop: take the join
\* handles; with None there is nothing to do
ShutdownCall ==
    /\ listener = "stopped"
    /\ shutPc = "idle"
    /\ shutStat.calls < MaxShutdownCalls
    /\ IF threads.some
       THEN /\ threads' = take(threads)
            /\ joinable' = threads.v
            /\ pushLeft' = ShutdownPushCount(threads.v)
            /\ shutPc' = IF ShutdownPushCount(threads.v) > 0 THEN "pushing" ELSE "joining"
            /\ shutStat' = [shutStat EXCEPT !.calls = @ + 1]
       ELSE /\ shutStat' = [shutStat EXCEPT !.calls = @ + 1, !.returns = @ + 1]
            /\ UNCHANGED <<threads, joinable, pushLeft, shutPc>>
    /\ UNCHANGED <<handlers, nAdds, listener, n_threads, pc, job, data, conns,
                   dispatchLog, sendLog, call>>

\* self.reqs.push(ThreadPoolMessage::Die)
ShutdownPush ==
    /\ shutPc = "pushing"
    /\ Push(Die)
    /\ pushLeft' = pushLeft - 1
    /\ shutPc' = IF pushLeft = 1 THEN "joining" ELSE "pushing"
    /\ shutStat' = [shutStat EXCEPT !.dies = @ + 1]
    /\ UNCHANGED <<handlers, nAdds, listener, n_threads, threads, job, conns,
                   dispatchLog, sendLog, joinable, call>>

\* th.join().expect(..): blocks until the thread has ended, and panics when
\* it ended by a panic; shutdown returns after the last join
ShutdownJoin ==
    /\ shutPc = "joining"
    /\ joinable # <<>>
    /\ pc[Head(joinable)] \in {"exited", "panicked"}
    /\ IF pc[Head(joinable)] = "panicked"
       THEN /\ shutPc' = "panicked"
            /\ UNCHANGED <<joinable, shutStat>>
       ELSE /\ joinable' = Tail(joinable)
            /\ shutPc' = IF Tail(joinable) = <<>> THEN "idle" ELSE "joining"
            /\ shutStat' = IF Tail(joinable) = <<>>
                           THEN [shutStat EXCEPT !.returns = @ + 1] ELSE shutStat
    /\ UNCHANGED <<handlers, nAdds, listener, n_threads, threads, pc, job, data, conns,
                   dispatchLog, sendLog, pushLeft, call>>

\* ------------------------------------------------- the specification
Next ==
    \/ AddHandler
    \/ HTTPListenerNew
    \/ HandleConnection
    \/ ListenerFail
    \/ \E w \in Workers : PopTake(w)
    \/ \E w \in Workers : PopWait(w)
    \/ \E w \in Workers : SpuriousWake(w)
    \/ \E w \in Workers : Callback(w)
    \/ ShutdownCall
    \/ ShutdownPush
    \/ ShutdownJoin

Spec == Init /\ [][Next]_vars

\* threads are scheduled fairly: a worker that can step does, a handler call
\* in progress ends, and the thread inside shutdown() goes on
FairSpec ==
    /\ Spec
    /\ \A w \in Workers : WF_vars(PopTake(w) \/ PopWait(w) \/ Callback(w))
    /\ WF_vars(ShutdownPush)
    /\ WF_vars(ShutdownJoin)

\* ------------------------------------- pure functions, applied to inputs
PathChars == {"/", "a", "b"}
PathStrings == UNION {[1..n -> PathChars] : n \in 0..MaxPathLen}

P_ABSOLUTE == SCHEME \o <<"h">> \o P_A
P_ABSOLUTE_HOST == SCHEME \o <<"h">>

FnHandlerInputs ==
    {<<m, p, k>> : m \in {"Get", "Post"}, p \in {P_ROOT, P_A, P_A_SLASH},
                   k \in {"Done", "Continue"}}

\* the registry after registry.add(..) of each handler of the list in turn
RECURSIVE RegistryOf(_)
RegistryOf(hs) ==
    IF hs = <<>> THEN <<>>
    ELSE LET h == hs[Len(hs)]
         IN  RegistryAdd(RegistryOf(SubSeq(hs, 1, Len(hs) - 1)),
                         HandlerOf(h[1], HandlerPathNew(h[2]), h[3])).registry

FnRegistries == {RegistryOf(hs) : hs \in UNION {[1..n -> FnHandlerInputs] : n \in 0..MaxAdds}}

FnHeads ==
    {HeadOf(TRUE, <<MethodDisplay(m), p, v>>, <<L_HOST>>) :
        m \in {"Get", "Post"},
        p \in {P_ROOT, P_A, P_A_SLASH, P_STAR, P_AUTHORITY, P_ABSOLUTE, P_ABSOLUTE_HOST},
        v \in {V1_0, V1_1}}

FnRequests == {RequestNew(parse_req_head(h), 1) : h \in FnHeads}

P_ABSOLUTE_SLASH == SCHEME \o <<"h", "/">>

\* the request paths Path::from_str makes of the targets
FnPaths ==
    {PathFromStr(t) : t \in {P_ROOT, P_A, P_A_SLASH, P_STAR, P_AUTHORITY,
                              P_ABSOLUTE, P_ABSOLUTE_HOST, P_ABSOLUTE_SLASH}}

\* the handlers an application builds, their paths made by HandlerPath::new
FnHandlers ==
    {HandlerOf(m, HandlerPathNew(p), k) :
        m \in {"Get", "Post", "Trace"}, p \in {P_ROOT, P_A, P_A_SLASH},
        k \in {"Done", "Continue"}}

\* the lists of handlers given to HandlerRegistry::new
FnHandlerLists == UNION {[1..n -> FnHandlers] : n \in 0..MaxNewLen}

FnNewRegistries == {RegistryNew(hs) : hs \in FnHandlerLists}

\* a start line: the tokens with one space between them
RECURSIVE JoinTokens(_)
JoinTokens(tokens) ==
    IF tokens = <<>> THEN <<>>
    ELSE IF Len(tokens) = 1 THEN tokens[1]
    ELSE tokens[1] \o <<" ">> \o JoinTokens(Tail(tokens))

T_EXTRA == <<"e", "x", "t", "r", "a">>

FnTokens == {MethodDisplay("Get"), P_ROOT, V1_1, T_EXTRA}

\* the start lines given to parse_start_line
FnStartLines == {JoinTokens(ts) : ts \in UNION {[1..n -> FnTokens] : n \in 0..MaxTokens}}

L_HOST_UPPER == <<"H", "O", "S", "T", ":", "x">>
L_HOST_LOWER == <<"h", "o", "s", "t", ":", "y">>
L_ACCEPT == <<"A", "c", "c", "e", "p", "t", ":", "a", ":", "b">>
L_ACCEPT_LOWER == <<"a", "c", "c", "e", "p", "t", ":", "c">>

FnHeaderLines == {L_HOST, L_HOST_UPPER, L_HOST_LOWER, L_ACCEPT, L_ACCEPT_LOWER, L_NO_COLON}

\* the header lines of a head, in the order they were read
FnHeaderLists == UNION {[1..n -> FnHeaderLines] : n \in 0..MaxHeaderLines}

\* the heads given to the head parser
FnReqHeads ==
    {HeadOf(TRUE, start, hdrs) :
        start \in {<<MethodDisplay("Get"), P_A>>,
                   <<MethodDisplay("Get"), P_A, V1_0>>,
                   <<MethodDisplay("Get"), P_A, V1_1>>},
        hdrs \in FnHeaderLists}

V_TEXT == <<"t">>
V_TEXT_CHARSET == <<"t", ";">> \o CHARSET \o <<"=", "x">>
X_A == <<"X", "-", "A">>
X_A_MIXED == <<"X", "-", "a">>
DATE == <<"D", "a", "t", "e">>

\* the calls a handler makes on a builder to give headers
FnBuilderOps ==
    {[op |-> "header", k |-> CONTENT_TYPE, v |-> V_TEXT],
     [op |-> "header", k |-> CONTENT_TYPE, v |-> V_TEXT_CHARSET],
     [op |-> "header", k |-> CONTENT_LENGTH, v |-> <<"9">>],
     [op |-> "header", k |-> X_A, v |-> <<"1">>]}
    \cup {[op |-> "headers", map |-> {<<X_A, <<"2">>>>}]}

ApplyBuilderOp(b, o) ==
    IF o.op = "header" THEN BuilderHeader(b, o.k, o.v) ELSE BuilderHeaders(b, o.map)

RECURSIVE ApplyBuilderOps(_, _)
ApplyBuilderOps(b, ops) ==
    IF ops = <<>> THEN b
    ELSE ApplyBuilderOp(ApplyBuilderOps(b, SubSeq(ops, 1, Len(ops) - 1)), ops[Len(ops)])

\* the builders build is called on: each of version, status, stream and body
\* set or not, and the header calls made
FnBuilders ==
    {ApplyBuilderOps([BuilderDefault EXCEPT !.version = v, !.status = st, !.stream = sm,
                                           !.hasBody = bd[1], !.body = bd[2]], ops) :
        v \in {"None", "V1_0", "V1_1"}, st \in {"None", "OK"}, sm \in {NoStream, 1},
        bd \in {<<FALSE, <<>>>>, <<TRUE, <<>>>>, <<TRUE, HELLO>>},
        ops \in UNION {[1..n -> FnBuilderOps] : n \in 0..MaxHeaderOps}}

FnResponses == {build(b).res : b \in {x \in FnBuilders : build(x).ok}}

\* the calls made on a built response to manage its headers
FnResponseOps ==
    {[op |-> "set_header", k |-> X_A, v |-> <<"1">>],
     [op |-> "insert_if_absent", k |-> DATE, v |-> <<"4", "2">>],
     [op |-> "insert_if_absent", k |-> X_A_MIXED, v |-> <<"2">>]}
    \cup {[op |-> "extend_headers", map |-> {<<X_A, <<"3">>>>}]}

ApplyResponseOp(headers, o) ==
    CASE o.op = "set_header" -> set_header(headers, o.k, o.v)
      [] o.op = "insert_if_absent" -> insert_if_absent(headers, o.k, o.v)
      [] o.op = "extend_headers" -> extend_headers(headers, o.map)

RECURSIVE ApplyResponseOps(_, _)
ApplyResponseOps(headers, ops) ==
    IF ops = <<>> THEN headers
    ELSE ApplyResponseOp(ApplyResponseOps(headers, SubSeq(ops, 1, Len(ops) - 1)), ops[Len(ops)])


\* ---- request/http1_1/body.rs ----

MaxStreamLen == 3

\* the unread bytes of a BufReader: data is what the stream yields before it
\* ends, pos is how many of them were consumed
Remaining(reader) == Len(reader.data) - reader.pos

\* Read::read_exact for a buffer of n bytes; when the stream ends early, eof
\* is the number of bytes taken before the end was seen (left open by the
\* standard library)
read_exact(reader, n, eof) ==
    IF Remaining(reader) >= n
    THEN [ok |-> TRUE,
          bytes |-> SubSeq(reader.data, reader.pos + 1, reader.pos + n),
          reader |-> [reader EXCEPT !.pos = @ + n]]
    ELSE [ok |-> FALSE, bytes |-> <<>>, reader |-> [reader EXCEPT !.pos = @ + eof]]

BodyOk(val, reader) == [ok |-> TRUE, val |-> val, err |-> "", reader |-> reader]
BodyErr(err, reader) == [ok |-> FALSE, val |-> <<>>, err |-> err, reader |-> reader]

\* reads up to the end of the stream and keeps the first length bytes
read_body_to_end(length, reader, eof) ==
    IF Remaining(reader) < length
    THEN BodyErr("Could not read from stream", [reader EXCEPT !.pos = Len(reader.data)])
    ELSE BodyOk(SubSeq(reader.data, reader.pos + 1, reader.pos + length),
                [reader EXCEPT !.pos = Len(reader.data)])

read_body(length, reader, eof) ==
    LET read == read_exact(reader, length, eof)
    IN  IF ~read.ok THEN BodyErr("Could not read from stream", read.reader)
        ELSE IF Len(read.bytes) # length THEN BodyErr("Content-Length is greater than the actual length", read.reader)
        ELSE BodyOk(read.bytes, read.reader)

\* String::from_utf8, which refuses the byte 0xFF
decode_body(body, reader) ==
    IF \E i \in 1..Len(body) : body[i] = "0xFF"
    THEN BodyErr("Failed to decode bytes as UTF-8", reader)
    ELSE BodyOk(body, reader)

\* serde_json::from_str on strings of the bytes "1", "{" and "}": a number or an
\* empty object
IsJson(content) ==
    \/ content = <<"{", "}">>
    \/ content # <<>> /\ \A i \in 1..Len(content) : content[i] = "1"

\* reads the body before looking at the content type
text_read_first(parse_info, reader, eof) ==
    LET body == read_body(parse_info.length, reader, eof)
    IN  IF parse_info.content_type.main_type # "Text" THEN BodyErr("Not a text document", body.reader)
        ELSE IF ~body.ok THEN body
        ELSE decode_body(body.val, body.reader)

text(parse_info, reader, eof) ==
    IF parse_info.content_type.main_type # "Text" THEN BodyErr("Not a text document", reader)
    ELSE LET body == read_body(parse_info.length, reader, eof)
         IN  IF ~body.ok THEN body
             ELSE decode_body(body.val, body.reader)

json(parse_info, reader, eof) ==
    IF ~(parse_info.content_type.main_type = "Application"
         /\ parse_info.content_type.sub_type = "JSON")
    THEN BodyErr("Not JSON", reader)
    ELSE LET body == read_body(parse_info.length, reader, eof)
             content == decode_body(body.val, body.reader)
         IN  IF ~body.ok THEN body
             ELSE IF ~content.ok THEN content
             ELSE IF ~IsJson(content.val) THEN BodyErr("Failed to decode JSON", content.reader)
             ELSE content

\* a stream some of whose bytes were consumed already
FnReaders ==
    {[data |-> d, pos |-> p] :
        d \in UNION {[1..n -> {"1", "{", "}", "0xFF"}] : n \in 0..MaxStreamLen},
        p \in 0..1} \ {[data |-> <<>>, pos |-> 1]}

\* MimeParseInfo: the MimeType (main_type and sub_type) of text/plain,
\* application/json, application/xml and audio/mpeg, and the length
FnParseInfos ==
    {[content_type |-> [main_type |-> t[1], sub_type |-> t[2]], length |-> n] :
        t \in {<<"Text", "TXT">>, <<"Application", "JSON">>, <<"Application", "XML">>,
               <<"Audio", "MP3">>},
        n \in 0..MaxStreamLen}


\* ---- Display for ResponseStatus ----

\* the regex ([a-z])([A-Z]) matches the two characters
LowerThenUpper(a, b) == (\E i \in 1..26 : LOWER[i] = a) /\ (\E i \in 1..26 : UPPER[i] = b)

\* replace_all of ([a-z])([A-Z]) by "$1 $2": the matches are taken from the
\* left and do not overlap
RECURSIVE unpascal_case(_)
unpascal_case(s) ==
    IF Len(s) < 2 THEN s
    ELSE IF LowerThenUpper(s[1], s[2])
    THEN <<s[1], " ", s[2]>> \o unpascal_case(SubSeq(s, 3, Len(s)))
    ELSE <<s[1]>> \o unpascal_case(Tail(s))

\* the derived Debug form of a variant without fields: its name
DebugName(variant) ==
    CASE variant = "OK" ->
            <<"O", "K">>
      [] variant = "BadRequest" ->
            <<"B", "a", "d", "R", "e", "q", "u", "e", "s", "t">>
      [] variant = "NotFound" ->
            <<"N", "o", "t", "F", "o", "u", "n", "d">>
      [] variant = "InternalServerError" ->
            <<"I", "n", "t", "e", "r", "n", "a", "l", "S", "e", "r", "v", "e", "r", "E", "r", "r", "o", "r">>
      [] variant = "IMUsed" ->
            <<"I", "M", "U", "s", "e", "d">>
      [] variant = "URITooLong" ->
            <<"U", "R", "I", "T", "o", "o", "L", "o", "n", "g">>
      [] variant = "HTTPVersionNotSupported" ->
            <<"H", "T", "T", "P", "V", "e", "r", "s", "i", "o", "n", "N", "o", "t", "S", "u", "p", "p", "o", "r", "t", "e", "d">>
      [] variant = "NonAuthoritativeInformation" ->
            <<"N", "o", "n", "A", "u", "t", "h", "o", "r", "i", "t", "a", "t", "i", "v", "e", "I", "n", "f", "o", "r", "m", "a", "t", "i", "o", "n">>
      [] variant = "MultiStatus" ->
            <<"M", "u", "l", "t", "i", "S", "t", "a", "t", "u", "s">>
      [] variant = "Imateapot" ->
            <<"I", "m", "a", "t", "e", "a", "p", "o", "t">>

\* Display for ResponseStatus
StatusDisplay(status) ==
    CASE status.variant = "NonAuthoritativeInformation" ->
            <<"N", "o", "n", "-", "A", "u", "t", "h", "o", "r", "i", "t",
              "a", "t", "i", "v", "e", " ", "I", "n", "f", "o", "r", "m", "a", "t", "i", "o", "n">>
      [] status.variant = "MultiStatus" ->
            <<"M", "u", "t", "l", "i", "-", "S", "t", "a", "t", "u", "s">>
      [] status.variant = "Imateapot" ->
            <<"I", "'", "m", " ", "A", " ", "T", "e", "a", "p", "o", "t">>
      [] status.variant = "NonStandard" -> ToDecimal(status.code) \o <<" ">> \o status.name
      [] OTHER -> unpascal_case(DebugName(status.variant))

\* ResponseStatus values: variants without fields, and NonStandard(code, name)
FnStatuses ==
    {[variant |-> v, code |-> 0, name |-> <<>>] :
        v \in {"OK", "BadRequest", "NotFound", "InternalServerError", "IMUsed",
               "URITooLong", "HTTPVersionNotSupported",
               "NonAuthoritativeInformation", "MultiStatus", "Imateapot"}}
        \cup {[variant |-> "NonStandard", code |-> 521,
                name |-> <<"W", "e", "b", " ", "S", "e", "r", "v", "e", "r", " ", "I", "s", " ", "D", "o", "w", "n">>]}

FnCall(fn, arg) == [fn |-> fn, arg |-> arg, res |-> <<>>, done |-> FALSE]

\* the calls of each function the model applies
FnCalls ==
    \/ \E p \in PathStrings : call = FnCall("HandlerPath::new", p)
    \/ \E r \in FnRegistries, q \in FnRequests :
          call = FnCall("dispatch", [registry |-> r, req |-> q])
    \/ \E p \in FnPaths : call = FnCall("HandlerPath::try_from", p)
    \/ \E hs \in FnHandlerLists : call = FnCall("HandlerRegistry::new", hs)
    \/ \E r \in FnNewRegistries, h \in FnHandlers :
          call = FnCall("add", [registry |-> r, handler |-> h])
    \/ \E line \in FnStartLines : call = FnCall("parse_start_line", line)
    \/ \E head \in FnReqHeads : call = FnCall("parse_req", head)
    \/ \E lines \in FnHeaderLists : call = FnCall("parse_headers", lines)
    \/ \E b \in FnBuilders : call = FnCall("build", b)
    \/ \E m \in Methods : call = FnCall("HTTPMethod", m)
    \/ \E r \in FnResponses, ops \in UNION {[1..n -> FnResponseOps] : n \in 1..MaxHeaderOps} :
          call = FnCall("headers", [res |-> r, ops |-> ops])

    \/ \E s \in FnStatuses : call = FnCall("ResponseStatus", s)

    \/ \E n \in 0..MaxStreamLen, r \in FnReaders :
          call = FnCall("read_body", [length |-> n, reader |-> r])
    \/ \E i \in FnParseInfos, r \in FnReaders :
          call = FnCall("text", [parse_info |-> i, reader |-> r])
    \/ \E i \in FnParseInfos, r \in FnReaders :
          call = FnCall("json", [parse_info |-> i, reader |-> r])

FnInit ==
    /\ handlers = <<>>
    /\ nAdds = 0
    /\ listener = "setup"
    /\ n_threads = 0
    /\ threads = [some |-> FALSE, v |-> <<>>]
    /\ pc = [w \in Workers |-> "unspawned"]
    /\ job = [w \in Workers |-> NoJob]
    /\ data = <<>>
    /\ conns = <<>>
    /\ dispatchLog = <<>>
    /\ sendLog = <<>>
    /\ shutPc = "idle"
    /\ joinable = <<>>
    /\ pushLeft = 0
    /\ shutStat = [calls |-> 0, returns |-> 0, dies |-> 0]
    /\ FnCalls

\* HandlerPath::new(arg)
ApplyHandlerPathNew ==
    /\ call.fn = "HandlerPath::new"
    /\ ~call.done
    /\ call' = [call EXCEPT !.res = HandlerPathNew(call.arg), !.done = TRUE]
    /\ UNCHANGED serverVars

\* registry.dispatch(req), and the response the worker callback makes of it
ApplyDispatch ==
    /\ call.fn = "dispatch"
    /\ ~call.done
    /\ LET out == dispatch(call.arg.registry, call.arg.req)
       IN  call' = [call EXCEPT
                      !.res = [out |-> out,
                               response |-> IF out.tag = "Panic" THEN <<>>
                                            ELSE CallbackResponse(out)],
                      !.done = TRUE]
    /\ UNCHANGED serverVars

\* HandlerPath::try_from(arg)
ApplyTryFrom ==
    /\ call.fn = "HandlerPath::try_from"
    /\ ~call.done
    /\ call' = [call EXCEPT !.res = HandlerPathTryFrom(call.arg), !.done = TRUE]
    /\ UNCHANGED serverVars

\* HandlerRegistry::new(arg): the constructor returns the registry only
ApplyRegistryNew ==
    /\ call.fn = "HandlerRegistry::new"
    /\ ~call.done
    /\ call' = [call EXCEPT !.res = [result |-> "Ok", registry |-> RegistryNew(call.arg)],
                            !.done = TRUE]
    /\ UNCHANGED serverVars

\* registry.add(handler)
ApplyAdd ==
    /\ call.fn = "add"
    /\ ~call.done
    /\ call' = [call EXCEPT !.res = RegistryAdd(call.arg.registry, call.arg.handler),
                            !.done = TRUE]
    /\ UNCHANGED serverVars

\* parse_start_line(arg)
ApplyParseStartLine ==
    /\ call.fn = "parse_start_line"
    /\ ~call.done
    /\ call' = [call EXCEPT !.res = parse_start_line(Split(call.arg, " ")), !.done = TRUE]
    /\ UNCHANGED serverVars

\* the head part of parse_req, on the head arg
ApplyParseReq ==
    /\ call.fn = "parse_req"
    /\ ~call.done
    /\ call' = [call EXCEPT !.res = parse_req_head(call.arg), !.done = TRUE]
    /\ UNCHANGED serverVars

\* parse_headers(arg)
ApplyParseHeaders ==
    /\ call.fn = "parse_headers"
    /\ ~call.done
    /\ call' = [call EXCEPT !.res = parse_headers(call.arg), !.done = TRUE]
    /\ UNCHANGED serverVars

\* arg.build(), and the response as format_http1_x serialises it
ApplyBuild ==
    /\ call.fn = "build"
    /\ ~call.done
    /\ LET out == build(call.arg)
       IN  call' = [call EXCEPT
                      !.res = [out |-> out,
                               wire |-> IF out.ok THEN format_http1_x(out.res) ELSE <<>>],
                      !.done = TRUE]
    /\ UNCHANGED serverVars

\* set_header, insert_if_absent and extend_headers calls on a built response
ApplyHeaderOps ==
    /\ call.fn = "headers"
    /\ ~call.done
    /\ LET res == [call.arg.res EXCEPT !.headers = ApplyResponseOps(@, call.arg.ops)]
       IN  call' = [call EXCEPT !.res = [res |-> res, wire |-> format_http1_x(res)],
                                !.done = TRUE]
    /\ UNCHANGED serverVars

\* HTTPMethod::from_str(&arg.to_string())
ApplyMethodRoundTrip ==
    /\ call.fn = "HTTPMethod"
    /\ ~call.done
    /\ call' = [call EXCEPT !.res = [rendered |-> MethodDisplay(call.arg),
                                    parsed |-> MethodFromStr(MethodDisplay(call.arg))],
                            !.done = TRUE]
    /\ UNCHANGED serverVars


ApplyReadBody ==
    /\ call.fn = "read_body"
    /\ ~call.done
    /\ \E eof \in 0..Remaining(call.arg.reader) :
          call' = [call EXCEPT !.res = read_body(call.arg.length, call.arg.reader, eof),
                               !.done = TRUE]
    /\ UNCHANGED serverVars

ApplyText ==
    /\ call.fn = "text"
    /\ ~call.done
    /\ \E eof \in 0..Remaining(call.arg.reader) :
          call' = [call EXCEPT !.res = text(call.arg.parse_info, call.arg.reader, eof),
                               !.done = TRUE]
    /\ UNCHANGED serverVars

ApplyJson ==
    /\ call.fn = "json"
    /\ ~call.done
    /\ \E eof \in 0..Remaining(call.arg.reader) :
          call' = [call EXCEPT !.res = json(call.arg.parse_info, call.arg.reader, eof),
                               !.done = TRUE]
    /\ UNCHANGED serverVars


\* status.to_string()
ApplyStatusDisplay ==
    /\ call.fn = "ResponseStatus"
    /\ ~call.done
    /\ call' = [call EXCEPT !.res = StatusDisplay(call.arg), !.done = TRUE]
    /\ UNCHANGED serverVars

FnNext ==
    \/ ApplyHandlerPathNew
    \/ ApplyDispatch
    \/ ApplyTryFrom
    \/ ApplyRegistryNew
    \/ ApplyAdd
    \/ ApplyParseStartLine
    \/ ApplyParseReq
    \/ ApplyParseHeaders
    \/ ApplyBuild
    \/ ApplyHeaderOps
    \/ ApplyMethodRoundTrip
    \/ ApplyReadBody
    \/ ApplyText
    \/ ApplyJson
    \/ ApplyStatusDisplay

FnSpec == FnInit /\ [][FnNext]_vars

\* ============================================================ the claims
IsPrefix(a, b) == Len(a) <= Len(b) /\ SubSeq(b, 1, Len(a)) = a

\* the connections whose request was enqueued, in enqueue order
EnqOrder == SelectSeq([i \in 1..Len(conns) |-> i], LAMBDA i : conns[i].outcome = "enqueued")
DispatchedReqs == [i \in 1..Len(dispatchLog) |-> dispatchLog[i].req]
SentReqs == [i \in 1..Len(sendLog) |-> sendLog[i].req]
Spawned == 1..n_threads

Count(seq, c) == Cardinality({i \in 1..Len(seq) : seq[i] = c})
InQueue(c) == Cardinality({i \in 1..Len(data) : data[i].tag = "Work" /\ data[i].req.conn = c})
InHand(c) == Cardinality({w \in Workers : pc[w] = "work" /\ job[w].conn = c})

\* C1: with one worker, requests are dispatched and their responses sent in
\* the order they were enqueued, and once that worker has drained the queue
\* (it waits on the empty queue, or has left on Die) the responses sent are
\* exactly those of the enqueued requests, in enqueue order.
C1_SingleWorkerFIFO ==
    n_threads = 1 =>
        /\ IsPrefix(DispatchedReqs, EnqOrder)
        /\ IsPrefix(SentReqs, DispatchedReqs)
        /\ pc[1] \in {"waiting", "exited"} => SentReqs = EnqOrder

C1_Witness ==
    /\ n_threads = 1
    /\ pc[1] = "waiting"
    /\ Len(SentReqs) = MaxConns
    /\ SentReqs = EnqOrder

\* C2: in every interleaving, each enqueued request is in exactly one place:
\* still in the queue, in the hands of exactly one worker, or dispatched
\* exactly once; and nothing else is ever in the queue, in a worker's hands
\* or dispatched.
C2_ExactlyOnce ==
    \A c \in 1..MaxConns :
        InQueue(c) + InHand(c) + Count(DispatchedReqs, c)
            = IF c <= Len(conns) /\ conns[c].outcome = "enqueued" THEN 1 ELSE 0

C2_Witness ==
    /\ n_threads >= 2
    /\ pc[1] = "work" /\ pc[2] = "work"
    /\ job[1].conn # job[2].conn

AllWorkersEnded ==
    /\ n_threads >= 1
    /\ \A w \in Spawned : pc[w] \in {"exited", "panicked"}

\* C3: shutdown is graceful.  No worker has left on Die while a Work message
\* is still in the queue, and once shutdown has started and every worker
\* thread has ended, every enqueued request has been dispatched and has had
\* its response sent.
C3_GracefulShutdown ==
    /\ (\E w \in Spawned : pc[w] = "exited") => \A i \in 1..Len(data) : data[i].tag # "Work"
    /\ (shutStat.calls >= 1 /\ AllWorkersEnded) =>
          \A i \in 1..Len(EnqOrder) :
              /\ Count(DispatchedReqs, EnqOrder[i]) = 1
              /\ Count(SentReqs, EnqOrder[i]) = 1

NoHandlerCallLost == \A w \in Workers : pc[w] # "panicked"

SendsFor(c) == {i \in 1..Len(sendLog) : sendLog[i].req = c}

\* C5: for every request a worker took and has finished with, send was
\* called exactly once, on the stream of the connection the request came on.
C5_SendOncePerRequest ==
    \A i \in 1..Len(dispatchLog) :
        LET c == dispatchLog[i].req
        IN  /\ Cardinality(SendsFor(c)) = 1
            /\ \A j \in SendsFor(c) : sendLog[j].stream = c

\* C6: a connection whose head did not parse has a 400 Bad Request written
\* on it by the accept thread, and its request is not enqueued.
C6_ParseFailure400 ==
    \A c \in 1..Len(conns) :
        conns[c].outcome = "parseErr" =>
            /\ \E j \in 1..Len(sendLog) :
                  /\ sendLog[j].stream = c
                  /\ sendLog[j].status = "BadRequest"
                  /\ sendLog[j].by = "accept"
            /\ InQueue(c) + InHand(c) + Count(DispatchedReqs, c) = 0

\* C7: a panic in a handler is isolated.  The request whose handler panicked
\* gets a 500 Internal Server Error, and until shutdown every spawned worker
\* is still in its loop.
C7_PanicIsolated ==
    \A i \in 1..Len(dispatchLog) :
        (dispatchLog[i].tag = "Panic" /\ dispatchLog[i].why = "handler") =>
            /\ \E j \in SendsFor(dispatchLog[i].req) :
                  sendLog[j].status = "InternalServerError"
            /\ shutStat.calls = 0 => \A w \in Spawned : pc[w] \in {"pop", "waiting", "work"}

Dispatched == call.fn = "dispatch" /\ call.done

Unroutable(path) == path.form \in {"AuthorityForm", "Asterisk"}

\* C8: a dispatch failure becomes a response whose status is 400 Bad Request
\* when the request path is authority-form or asterisk-form and 404 Not Found
\* otherwise, the latter only when the registry has no handler under the
\* (method, path) key; the response has the request's version and stream.
C8_DispatchErrorResponse ==
    (Dispatched /\ call.res.out.tag = "Err") =>
        LET req == call.arg.req
            res == call.res.response
        IN  /\ res.status = IF Unroutable(req.path) THEN "BadRequest" ELSE "NotFound"
            /\ to_code(res.status) = IF Unroutable(req.path) THEN 400 ELSE 404
            /\ ~Unroutable(req.path) =>
                  KeyOf(req.method, HandlerPathTryFrom(req.path).hp)
                      \notin DOMAIN call.arg.registry
            /\ res.version = req.version
            /\ res.stream = req.stream

C8_Witness ==
    /\ Dispatched
    /\ call.res.out.tag = "Err"
    /\ call.arg.req.path.form = "AuthorityForm"
    /\ call.res.response.status = "BadRequest"
    /\ call.arg.req.version = "V1_0"

\* C9: when a handler answering Done was registered with method M and
\* HandlerPath::new(p), dispatching a request with method M and origin-form
\* path p returns that handler's response.
C9_DispatchFindsRegistered ==
    (Dispatched /\ call.arg.req.path.form = "OriginForm") =>
        LET req == call.arg.req
            key == KeyOf(req.method, HandlerPathNew(req.path.s))
        IN  (key \in DOMAIN call.arg.registry /\ call.arg.registry[key].kind = "Done") =>
                /\ call.res.out.tag = "Ok"
                /\ call.res.response.status = "OK"

\* the canonical form of a path that starts with '/'
Canonical(p) == IF p # <<"/">> /\ EndsWith(p, <<"/">>) THEN SubSeq(p, 1, Len(p) - 1) ELSE p

\* C10: for a path p that starts with '/', HandlerPath::new(p) is p without
\* one trailing '/' when p ends in '/' and is not "/", and p otherwise; the
\* result starts with '/'.
C10_HandlerPathCanonical ==
    (call.fn = "HandlerPath::new" /\ call.done /\ StartsWith(call.arg, <<"/">>)) =>
        /\ call.res = Canonical(call.arg)
        /\ StartsWith(call.res, <<"/">>)

\* an absolute-form target without its scheme and host: what follows the
\* host, from its '/' on, and "/" when nothing follows the host
AfterSchemeAndHost(s) ==
    LET rest == SubSeq(s, Len(SCHEME) + 1, Len(s))
        i == FirstIndex(rest, "/")
    IN  IF i = 0 THEN <<"/">> ELSE SubSeq(rest, i, Len(rest))

Converted == call.fn = "HandlerPath::try_from" /\ call.done

\* C11: converting a request path to a handler path gives the path itself
\* for origin-form, the path after scheme and host for absolute-form ("/"
\* when nothing follows the host), and an error for authority-form and
\* asterisk-form.
C11_PathFormConversion ==
    Converted =>
        CASE call.arg.form = "OriginForm" ->
                call.res.ok /\ call.res.hp = call.arg.s
          [] call.arg.form = "AbsoluteForm" ->
                call.res.ok /\ call.res.hp = AfterSchemeAndHost(call.arg.s)
          [] OTHER -> ~call.res.ok

Added == call.fn = "add" /\ call.done
Constructed == call.fn = "HandlerRegistry::new" /\ call.done

HoldsUnhandlable(registry) ==
    \E k \in DOMAIN registry : registry[k].method \in UnhandlableMethods

\* C12: adding a TRACE, CONNECT or OPTIONS handler is refused with
\* UnhandlableMethod and leaves the registry as it was, and neither a
\* registry made by HandlerRegistry::new nor one that add was applied to a
\* registry without such a handler holds a handler for one of those methods.
C12_UnhandlableMethodsRefused ==
    /\ Added =>
          /\ call.arg.handler.method \in UnhandlableMethods =>
                /\ call.res.result = "UnhandlableMethod"
                /\ call.res.registry = call.arg.registry
          /\ ~HoldsUnhandlable(call.arg.registry) => ~HoldsUnhandlable(call.res.registry)
    /\ Constructed => ~HoldsUnhandlable(call.res.registry)

\* the positions of a list given to HandlerRegistry::new whose key is that
\* of an earlier handler of the list
DuplicatePositions(hs) ==
    {i \in 1..Len(hs) :
        \E j \in 1..(i - 1) :
            KeyOf(hs[j].method, hs[j].path) = KeyOf(hs[i].method, hs[i].path)}

\* C13: inserting a handler (of a method that can be registered) under a key
\* the registry already has fails with DuplicateKey and lookup still returns
\* the handler registered first; inserting it under an absent key succeeds
\* and lookup returns it.  This holds for add and for the insertions
\* HandlerRegistry::new makes of its list.
C13_DuplicateKeyRefused ==
    /\ (Added /\ call.arg.handler.method \notin UnhandlableMethods) =>
          LET h == call.arg.handler
              key == KeyOf(h.method, h.path)
          IN  IF key \in DOMAIN call.arg.registry
              THEN /\ call.res.result = "DuplicateKey"
                   /\ RegistryGet(call.res.registry, h.method, h.path).handler
                         = call.arg.registry[key]
              ELSE /\ call.res.result = "Ok"
                   /\ RegistryGet(call.res.registry, h.method, h.path).found
                   /\ RegistryGet(call.res.registry, h.method, h.path).handler = h
    /\ Constructed =>
          /\ DuplicatePositions(call.arg) # {} => call.res.result = "DuplicateKey"
          /\ \A i \in 1..Len(call.arg) \ DuplicatePositions(call.arg) :
                RegistryGet(call.res.registry, call.arg[i].method, call.arg[i].path).handler
                    = call.arg[i]

\* the number of space-separated tokens of a line
TokenCount(line) ==
    IF line = <<>> THEN 0
    ELSE 1 + Cardinality({i \in 1..Len(line) : line[i] = " "})

\* the n-th space-separated token of a line
RECURSIVE Token(_, _)
Token(line, n) ==
    LET i == FirstIndex(line, " ")
        first == IF i = 0 THEN line ELSE SubSeq(line, 1, i - 1)
    IN  IF n = 1 THEN first ELSE Token(SubSeq(line, i + 1, Len(line)), n - 1)

StartLineParsed == call.fn = "parse_start_line" /\ call.done

\* C14: a start line of exactly two tokens (a method and a path that parse)
\* yields that method and path with version HTTP/0.9; one of exactly three
\* tokens that parse yields method, path and version; a line of zero, one or
\* more than three tokens yields an InvalidStartLine error.
C14_StartLineTokens ==
    StartLineParsed =>
        LET line == call.arg
            n == TokenCount(line)
            valid == /\ MethodFromStr(Token(line, 1)) # "Invalid"
                     /\ PathFromStr(Token(line, 2)).form # "Invalid"
        IN  /\ (n = 2 /\ valid) =>
                  /\ call.res.ok
                  /\ call.res.method = MethodFromStr(Token(line, 1))
                  /\ call.res.path = PathFromStr(Token(line, 2))
                  /\ call.res.version = "V0_9"
            /\ (n = 3 /\ valid /\ VersionFromStr(Token(line, 3)) # "Invalid") =>
                  /\ call.res.ok
                  /\ call.res.method = MethodFromStr(Token(line, 1))
                  /\ call.res.path = PathFromStr(Token(line, 2))
                  /\ call.res.version = VersionFromStr(Token(line, 3))
            /\ (n \in {0, 1} \/ n > 3) =>
                  /\ ~call.res.ok
                  /\ call.res.err = "InvalidStartLine"

HasColon(line) == \E i \in 1..Len(line) : line[i] = ":"

\* the name of a header line is Host, in any casing
NamesHost(line) ==
    /\ Len(line) >= 5
    /\ line[1] \in {"h", "H"} /\ line[2] \in {"o", "O"}
    /\ line[3] \in {"s", "S"} /\ line[4] \in {"t", "T"}
    /\ line[5] = ":"

ReqParsed == call.fn = "parse_req" /\ call.done

\* C15: for a head whose start line and header lines are well formed, parsing
\* fails with MissingHostHeader exactly when the version is HTTP/1.1 and no
\* header line names Host (in any casing); in particular heads of version
\* 0.9 and 1.0 parse without a Host header.
C15_HostRequiredFor1_1 ==
    (ReqParsed /\ \A i \in 1..Len(call.arg.hdrs) : HasColon(call.arg.hdrs[i])) =>
        LET is1_1 == Len(call.arg.start) = 3 /\ call.arg.start[3] = V1_1
            hasHost == \E i \in 1..Len(call.arg.hdrs) : NamesHost(call.arg.hdrs[i])
        IN  /\ (is1_1 /\ ~hasHost) => (~call.res.ok /\ call.res.err = "MissingHostHeader")
            /\ ~(is1_1 /\ ~hasHost) => call.res.ok

C15_Witness ==
    /\ ReqParsed
    /\ call.arg.start = <<MethodDisplay("Get"), P_A, V1_1>>
    /\ call.arg.hdrs = <<L_ACCEPT, L_HOST_UPPER>>
    /\ call.res.ok
    /\ call.res.version = "V1_1"

\* name and value of a header line: what is before and after its first ':'
NameOf(line) == SubSeq(line, 1, FirstIndex(line, ":") - 1)
ValueOf(line) == SubSeq(line, FirstIndex(line, ":") + 1, Len(line))

IsLowerCase(str) == \A i \in 1..Len(str) : \A k \in 1..26 : str[i] # UPPER[k]

SameName(a, b) ==
    /\ Len(a) = Len(b)
    /\ \A i \in 1..Len(a) : LowerChar(a[i]) = LowerChar(b[i])

HeadersParsed == call.fn = "parse_headers" /\ call.done

\* C16: parse_headers fails when a line has no ':'; otherwise every key of
\* the map is lower-case, the map has one value per key, every key is the
\* name of a line, and under the name of each line the map holds the value
\* (all that follows the first ':') of the last line of that name.
C16_HeaderParsing ==
    HeadersParsed =>
        LET lines == call.arg
            map == call.res.map
        IN  IF \E i \in 1..Len(lines) : ~HasColon(lines[i])
            THEN ~call.res.ok
            ELSE /\ call.res.ok
                 /\ \A kv \in map : IsLowerCase(kv[1])
                 /\ \A kv \in map : \E i \in 1..Len(lines) : SameName(NameOf(lines[i]), kv[1])
                 /\ \A kv1 \in map, kv2 \in map : kv1[1] = kv2[1] => kv1 = kv2
                 /\ \A i \in 1..Len(lines) :
                       (\A j \in (i + 1)..Len(lines) : ~SameName(NameOf(lines[j]), NameOf(lines[i])))
                           => \E kv \in map : /\ SameName(kv[1], NameOf(lines[i]))
                                              /\ kv[2] = ValueOf(lines[i])

C16_Witness ==
    /\ HeadersParsed
    /\ call.arg = <<L_ACCEPT, L_ACCEPT_LOWER>>
    /\ call.res.ok
    /\ call.res.map = {<<<<"a", "c", "c", "e", "p", "t">>, <<"c">>>>}

Built == call.fn = "build" /\ call.done
BuiltOk == Built /\ call.res.out.ok

WIRE_CONTENT_LENGTH == <<"C", "o", "n", "t", "e", "n", "t", "-", "L", "e", "n", "g", "t", "h">>

\* C17: the serialised HTTP/1.x form of every built response with a
\* non-empty body has a Content-Length header line, and the value of every
\* such line is the length of the body.
C17_ContentLengthIsBodyLength ==
    (BuiltOk /\ call.res.out.res.body # <<>>) =>
        /\ \E l \in call.res.wire.headers : l.name = WIRE_CONTENT_LENGTH
        /\ \A l \in call.res.wire.headers :
              l.name = WIRE_CONTENT_LENGTH => l.value = ToDecimal(Len(call.res.out.res.body))

KEY_CONTENT_TYPE == <<"c", "o", "n", "t", "e", "n", "t", "-", "t", "y", "p", "e">>

\* the Content-Type the builder was given, and the one the response has
GivenContentType == {kv[2] : kv \in {x \in call.arg.headers : x[1] = KEY_CONTENT_TYPE}}
BuiltContentType ==
    {kv[2] : kv \in {x \in call.res.out.res.headers : x[1] = KEY_CONTENT_TYPE}}

HasCharset(value) == ContainsStr(value, CHARSET)

\* what charset injection makes of the Content-Type values given
Injected == {IF HasCharset(v) THEN v ELSE v \o CHARSET_SUFFIX : v \in GivenContentType}

\* C18 as stated: at construction a Content-Type without a charset parameter
\* gets "; charset=UTF-8" appended, one with a charset parameter is left as
\* it is, and none is added when none was given.
C18_CharsetInjection ==
    BuiltOk => BuiltContentType = Injected

\* C18, amended: the above for a response with a non-empty body; with an
\* empty body the Content-Type is left as it was given.
C18_CharsetInjectionNonEmptyBody ==
    BuiltOk =>
        BuiltContentType = IF call.res.out.res.body # <<>> THEN Injected ELSE GivenContentType

C18_Witness ==
    /\ BuiltOk
    /\ call.res.out.res.body # <<>>
    /\ GivenContentType = {V_TEXT}
    /\ BuiltContentType = {V_TEXT \o CHARSET_SUFFIX}

\* the names of the header lines set or inserted by the calls made
NamesManaged == {call.arg.ops[i].k : i \in {j \in 1..Len(call.arg.ops) : call.arg.ops[j].op # "extend_headers"}}

HeadersManaged == call.fn = "headers" /\ call.done

\* C19: after build and any calls of set_header, insert_if_absent and
\* extend_headers, every key of the response's header map is lower-case,
\* get_header finds each header by the name it was inserted under, and no
\* header name is on the wire twice.
C19_HeaderKeysLowerCase ==
    /\ BuiltOk => \A kv \in call.res.out.res.headers : IsLowerCase(kv[1])
    /\ HeadersManaged =>
          /\ \A kv \in call.res.res.headers : IsLowerCase(kv[1])
          /\ \A k \in NamesManaged : get_header(call.res.res.headers, k).found
          /\ \A l1 \in call.res.wire.headers, l2 \in call.res.wire.headers :
                l1.name = l2.name => l1 = l2

\* C20: build fails when version, status or stream was not set and succeeds
\* when all three were; the response then has the body given, or the empty
\* body when none was, and, when no header was given, no header but the
\* Content-Length of a non-empty body.
C20_BuildNeedsVersionStatusStream ==
    Built =>
        LET b == call.arg
            res == call.res.out.res
        IN  IF b.version = "None" \/ b.status = "None" \/ b.stream = NoStream
            THEN ~call.res.out.ok
            ELSE /\ call.res.out.ok
                 /\ res.version = b.version /\ res.status = b.status /\ res.stream = b.stream
                 /\ res.body = IF b.hasBody THEN b.body ELSE <<>>
                 /\ ~b.hasHeaders =>
                       res.headers = IF res.body = <<>> THEN {}
                                     ELSE {<<ToLowercase(CONTENT_LENGTH), ToDecimal(Len(res.body))>>}

C20_Witness ==
    /\ BuiltOk
    /\ ~call.arg.hasHeaders /\ ~call.arg.hasBody
    /\ call.res.out.res.headers = {}
    /\ call.res.out.res.body = <<>>

MethodRendered == call.fn = "HTTPMethod" /\ call.done

\* C21: parsing the rendered form of a method yields that method, and the
\* rendered form is in upper case.
C21_MethodRoundTrip ==
    MethodRendered =>
        /\ call.res.parsed = call.arg
        /\ \A i \in 1..Len(call.res.rendered) : \A k \in 1..26 : call.res.rendered[i] # LOWER[k]

C21_Witness ==
    /\ MethodRendered
    /\ call.arg = "Head"
    /\ call.res.rendered = <<"H", "E", "A", "D">>
    /\ call.res.parsed = "Head"

\* a finished body read: a read_body call, or a text or json call whose
\* content type was accepted
BodyReadDone ==
    /\ call.done
    /\ \/ call.fn = "read_body"
       \/ call.fn = "text" /\ call.arg.parse_info.content_type.main_type = "Text"
       \/ call.fn = "json" /\ (call.arg.parse_info.content_type.main_type = "Application"
                             /\ call.arg.parse_info.content_type.sub_type = "JSON")

BodyLength == IF call.fn = "read_body" THEN call.arg.length ELSE call.arg.parse_info.length

\* C22: a body read with declared length L consumes exactly L bytes when at
\* least L bytes are left in the stream, fails when fewer are left, and never
\* consumes a byte beyond the first L.
C22_ReadsExactlyLength ==
    BodyReadDone =>
        /\ Remaining(call.arg.reader) >= BodyLength =>
              /\ call.res.reader.pos = call.arg.reader.pos + BodyLength
              /\ call.fn = "read_body" =>
                    /\ call.res.ok
                    /\ call.res.val = SubSeq(call.arg.reader.data, call.arg.reader.pos + 1,
                                             call.arg.reader.pos + BodyLength)
        /\ Remaining(call.arg.reader) < BodyLength => ~call.res.ok
        /\ call.res.reader.pos <= call.arg.reader.pos + BodyLength
        /\ call.res.reader.data = call.arg.reader.data

C22_Witness ==
    /\ call.fn = "read_body" /\ call.done
    /\ call.arg.length = 1
    /\ call.arg.reader = [data |-> <<"{", "}", "1">>, pos |-> 1]
    /\ call.res.ok
    /\ call.res.val = <<"}">>
    /\ call.res.reader.pos = 2

\* a text or json call on a content type the call does not accept
TypeRejected ==
    /\ call.done
    /\ \/ call.fn = "text" /\ call.arg.parse_info.content_type.main_type # "Text"
       \/ call.fn = "json" /\ ~(call.arg.parse_info.content_type.main_type = "Application"
                             /\ call.arg.parse_info.content_type.sub_type = "JSON")

\* C30: a text or json read refused because of the content type returns an
\* error and leaves the stream as it was: no byte is consumed.
C30_RejectedReadConsumesNothing ==
    TypeRejected =>
        /\ ~call.res.ok
        /\ call.res.err = (IF call.fn = "text" THEN "Not a text document" ELSE "Not JSON")
        /\ call.res.reader = call.arg.reader

C30_Witness ==
    /\ TypeRejected
    /\ call.fn = "text"
    /\ call.arg.parse_info = [content_type |-> [main_type |-> "Audio", sub_type |-> "MP3"],
                              length |-> 2]
    /\ call.arg.reader = [data |-> <<"1", "1", "1">>, pos |-> 1]
    /\ call.res.err = "Not a text document"
    /\ call.res.reader.pos = 1

FailedOutcomes == {"ioErr", "parseErr"}

\* C23: a connection whose handling fails (timeout configuration, read or
\* head parse error) leaves the accept loop running and able to take the
\* next connection; the loop stops only in a step that handles no connection,
\* the failure of the listening socket.
C23_AcceptLoopSurvivesFailures ==
    /\ [][/\ Len(conns') > Len(conns) => listener' = "running"
          /\ (listener = "running" /\ listener' # "running") => conns' = conns]_vars
    /\ []((listener = "running" /\ Len(conns) < MaxConns) => ENABLED HandleConnection)

C23_Witness ==
    /\ Len(conns) = 2
    /\ conns[1].outcome \in FailedOutcomes
    /\ conns[2].outcome = "enqueued"
    /\ \E i \in 1..Len(dispatchLog) : dispatchLog[i].req = conns[2].req.conn

\* the values that own the stream of connection c: the requests in the queue
\* and the jobs in the workers' hands (the response a callback builds owns it
\* until send returns, within the callback)
StreamHolders(c) ==
    Cardinality({i \in 1..Len(data) : data[i].tag = "Work" /\ data[i].req.stream = c})
        + Cardinality({w \in Workers : job[w].stream = c})

SelectedContinues ==
    /\ Dispatched
    /\ HandlerPathTryFrom(call.arg.req.path).ok
    /\ LET got == RegistryGet(call.arg.registry, call.arg.req.method,
                              HandlerPathTryFrom(call.arg.req.path).hp)
       IN  got.found /\ got.handler.kind = "Continue"

\* C25: when the selected handler answers Continue, dispatch returns neither
\* a response nor a routing error: it aborts with "not yet implemented".
C25_ContinueFailsLoudly ==
    SelectedContinues =>
        /\ call.res.out.tag = "Panic"
        /\ call.res.out.why = "not yet implemented"
        /\ call.res.response = <<>>

C25_Witness ==
    /\ SelectedContinues
    /\ call.arg.req.method = "Post"
    /\ call.arg.req.path.s = P_A
    /\ call.res.out.tag = "Panic"

DispatchFailed == Dispatched /\ call.res.out.tag = "Err"

\* C29: for every HandlerCallError, as_status_code() is the status of the
\* response into_response() makes for the same error.
C29_StatusCodeAgrees ==
    DispatchFailed =>
        as_status_code(call.res.out.err) = build(into_response(call.res.out.err)).res.status

StatusRendered == call.fn = "ResponseStatus" /\ call.done

\* the name with a space put in wherever a lower-case letter is followed by
\* an upper-case one
RECURSIVE SplitAtBoundaries(_)
SplitAtBoundaries(s) ==
    IF Len(s) < 2 THEN s
    ELSE LET front == SplitAtBoundaries(SubSeq(s, 1, Len(s) - 1))
         IN  IF LowerThenUpper(s[Len(s) - 1], s[Len(s)])
             THEN front \o <<" ", s[Len(s)]>>
             ELSE Append(front, s[Len(s)])

\* C26: a status renders as its variant name split at each lower-to-upper
\* boundary, except 203 "Non-Authoritative Information", 207 "Multi-Status",
\* 418 "I'm A Teapot" and NonStandard(code, phrase), "<code> <phrase>".
C26_ReasonPhrase ==
    StatusRendered =>
        call.res =
            CASE call.arg.variant = "NonAuthoritativeInformation" ->
                    <<"N", "o", "n", "-", "A", "u", "t", "h", "o", "r", "i", "t", "a", "t", "i", "v", "e", " ",
                      "I", "n", "f", "o", "r", "m", "a", "t", "i", "o", "n">>
              [] call.arg.variant = "MultiStatus" ->
                    <<"M", "u", "l", "t", "i", "-", "S", "t", "a", "t", "u", "s">>
              [] call.arg.variant = "Imateapot" ->
                    <<"I", "'", "m", " ", "A", " ", "T", "e", "a", "p", "o", "t">>
              [] call.arg.variant = "NonStandard" ->
                    ToDecimal(call.arg.code) \o <<" ">> \o call.arg.name
              [] OTHER -> SplitAtBoundaries(DebugName(call.arg.variant))

\* the same for every status but 207
C26_ReasonPhraseExceptMultiStatus ==
    (StatusRendered /\ call.arg.variant # "MultiStatus") => C26_ReasonPhrase

\* a step in which shutdown is called after an earlier call
LaterShutdownCall == shutStat.calls >= 1 /\ shutStat'.calls = shutStat.calls + 1

\* C28: a shutdown after the first pushes no Die message, joins nothing and
\* returns at once, leaving the queue and the workers as they were; and once
\* the first shutdown has returned the queue is empty.
C28_ShutdownIdempotent ==
    /\ [][LaterShutdownCall =>
             /\ shutStat'.returns = shutStat.returns + 1
             /\ shutStat'.dies = shutStat.dies
             /\ shutPc' = "idle"
             /\ UNCHANGED <<data, pc, joinable, pushLeft, threads>>]_vars
    /\ [](shutStat.returns >= 1 => data = <<>> /\ shutStat.dies = n_threads)

C28_Witness ==
    /\ shutStat.calls = 2
    /\ shutStat.returns = 2
    /\ shutStat.dies = n_threads
    /\ n_threads = MaxWorkers
    /\ Len(sendLog) >= 1
    /\ data = <<>>

\* the workers that are awake and on their way to take the lock in pop
Popping == {w \in Workers : pc[w] = "pop"}

\* the number of elements pop has removed so far: those pushed less those
\* still in the queue
Pushed == Cardinality({c \in 1..Len(conns) : conns[c].outcome = "enqueued"}) + shutStat.dies
Removed == Pushed - Len(data)

\* C27 as stated: a worker is blocked in pop only while the queue is empty.
C27_BlockedOnlyWhileEmpty == Waiters # {} => data = <<>>

\* C27: pop returns only with the front element, which it has removed; a
\* worker starts to wait only on an empty queue, and while some worker waits
\* every queued element has an awake worker on its way to pop it; and under
\* fair scheduling, when the queue is non-empty and some worker waits, an
\* element is eventually removed.
C27_NoLostWakeups ==
    /\ [][\A w \in Workers :
             /\ (pc[w] = "pop" /\ pc'[w] = "waiting") => data = <<>> /\ data' = data
             /\ (pc[w] = "pop" /\ pc'[w] \in {"work", "exited"}) =>
                   /\ data # <<>>
                   /\ data' = Tail(data)
                   /\ Head(data).tag = (IF pc'[w] = "work" THEN "Work" ELSE "Die")
                   /\ pc'[w] = "work" => job'[w] = Head(data).req]_vars
    /\ [](Waiters # {} => Len(data) <= Cardinality(Popping))
    /\ \A n \in 0..(MaxConns + MaxWorkers - 1) :
          (data # <<>> /\ Waiters # {} /\ Removed = n) ~> (Removed > n)

C27_Witness ==
    /\ n_threads = 2
    /\ Waiters # {}
    /\ data # <<>>
    /\ Removed >= 1
    /\ Cardinality(Popping) = 1

====
